---- MODULE Spec2Model ----
(***************************************************************************)
(* Model of the Gottesman-Knill stabilizer simulator (src/src/lib.rs) and  *)
(* its bit vectors (src/src/bitarray.rs).  The simulator is generic in its *)
(* RNG: the state keeps the number of words drawn, and the word a          *)
(* measurement draws is an input of the step.                              *)
(*                                                                         *)
(* A BitArray of length L is a function 0..L-1 -> BOOLEAN.  The simulator  *)
(* is the record gk = [xs, zs, sgns, measured, rng]; xs and zs are         *)
(* functions from row index to BitArray.  One action is one operation of   *)
(* a batch handed to send (one iteration of its loop), or one receive.     *)
(***************************************************************************)
EXTENDS Integers, Sequences, FiniteSets, TLC

\* ------------------------------------------------------------------ bounds
\* Number of qubits of the simulator explored by Spec and SpecAnyCX.
NQ == 2
\* Number of qubits of the simulator explored by SpecClassical.
NC == 3
\* Most qubits of the simulators explored by SpecGHZ.
NG == 4
\* Most words a run draws from the RNG.
MaxDraws == 2

\* The 32-bit words an RNG may return: 1 (low bit set) and 2 (not zero, low
\* bit clear).
Words == {1, 2}

\* ---------------------------------------------------------------- BitArray
zeros(len) == [i \in 0..(len - 1) |-> FALSE]

\* Mutant: reset leaves the bits as they are.
reset_keeps(a) == a

reset(a) == [i \in DOMAIN a |-> FALSE]

negate(a, index) == [a EXCEPT ![index] = ~@]

set_bool(a, index, val) == [a EXCEPT ![index] = val]

get_bool(a, index) == a[index]

\* get_masked returns the word masked to the bit: nonzero iff the bit is set.
get_masked(a, index) == IF a[index] THEN 1 ELSE 0

xor_all(a, other) == [i \in DOMAIN a |-> a[i] # other[i]]

\* ------------------------------------------------- BitArray, word by word
\* The same operations on the representation bitarray.rs keeps: inner, a
\* vector of 32-bit blocks, and len.  A block is the set of the positions of
\* its set bits; inner is a function from block index to block.  An operation
\* panics when it indexes inner out of bounds; then the array is as it was.
BLOCK_SIZE == 32

cap_from_len(len) == IF len > 0 THEN ((len - 1) \div BLOCK_SIZE) + 1 ELSE 0

\* _access: the block index and the mask 1 << (index % BLOCK_SIZE).
access(index) ==
  [block |-> index \div BLOCK_SIZE, mask |-> {index % BLOCK_SIZE}]

block_zeros(len) ==
  [inner |-> [b \in 0..(cap_from_len(len) - 1) |-> {}], len |-> len]

\* Mutant: ones leaves the last word all ones.
block_ones_unmasked(len) ==
  [inner |-> [b \in 0..(cap_from_len(len) - 1) |-> 0..(BLOCK_SIZE - 1)],
   len |-> len]

\* ones: every word !0, then the last word (1 << rem) - 1 if rem > 0.
block_ones(len) ==
  LET cap == cap_from_len(len)
      rem == len % BLOCK_SIZE
  IN  [inner |-> [b \in 0..(cap - 1) |->
                    IF rem > 0 /\ b = cap - 1 THEN 0..(rem - 1)
                    ELSE 0..(BLOCK_SIZE - 1)],
       len |-> len]

\* reset: every word becomes 0.
block_reset(a) == [a EXCEPT !.inner = [b \in DOMAIN a.inner |-> {}]]

\* xor_all: assert_eq!(self.len, other.len), then *dest ^= *src over the zip
\* of the two word vectors.
block_xor_all(a, other) ==
  IF a.len # other.len THEN [a |-> a, panic |-> TRUE]
  ELSE [a |-> [a EXCEPT !.inner = [b \in DOMAIN a.inner |->
                  IF b \in DOMAIN other.inner
                  THEN (a.inner[b] \ other.inner[b])
                         \cup (other.inner[b] \ a.inner[b])
                  ELSE a.inner[b]]],
        panic |-> FALSE]

\* self.inner[block] ^= mask
block_negate(a, index) ==
  LET ac == access(index)
  IN  IF ac.block \in DOMAIN a.inner
      THEN [a |-> [a EXCEPT !.inner[ac.block] = (@ \ ac.mask) \cup (ac.mask \ @)],
            panic |-> FALSE]
      ELSE [a |-> a, panic |-> TRUE]

\* self.inner[block] |= mask, or &= !mask
block_set_bool(a, index, val) ==
  LET ac == access(index)
  IN  IF ac.block \in DOMAIN a.inner
      THEN [a |-> [a EXCEPT !.inner[ac.block] =
                     IF val THEN @ \cup ac.mask ELSE @ \ ac.mask],
            panic |-> FALSE]
      ELSE [a |-> a, panic |-> TRUE]

\* self.inner[block] & mask
block_get_masked(a, index) ==
  LET ac == access(index)
  IN  IF ac.block \in DOMAIN a.inner
      THEN [val |-> a.inner[ac.block] \cap ac.mask, panic |-> FALSE]
      ELSE [val |-> {}, panic |-> TRUE]

\* self.get_masked(index) != 0
block_get_bool(a, index) ==
  LET m == block_get_masked(a, index)
  IN  [val |-> m.val # {}, panic |-> m.panic]

\* ------------------------------------------------------------------ TIndices
\* TIndices::new: the first word is loaded if there is one.  A word (buf) is
\* the set of the positions of its set bits.
tindices_new(a) ==
  IF Cardinality(DOMAIN a.inner) > 0
  THEN [current_blk |-> 0, current_bit |-> 0, buf |-> a.inner[0]]
  ELSE [current_blk |-> 0, current_bit |-> 0, buf |-> {}]

\* while (self.buf & 1) == 0 { self.current_bit += 1; self.buf >>= 1; }
\* entered with buf # 0.
RECURSIVE skip_zeros(_)
skip_zeros(it) ==
  IF 0 \in it.buf THEN it
  ELSE skip_zeros([it EXCEPT !.current_bit = @ + 1,
                             !.buf = {p - 1 : p \in it.buf}])

\* The item of a call of next that yields: buf ^= 1 after the loop.
yield(s) ==
  [it |-> [s EXCEPT !.buf = @ \ {0}],
   item |-> s.current_blk * BLOCK_SIZE + s.current_bit,
   panic |-> FALSE]

\* Iterator::next on the BitArray a; item is -1 for None.  inner.len() - 1 is
\* a usize subtraction: with no word it panics in a build with overflow
\* checks and wraps to usize::MAX in a build without, where the comparison
\* then holds and inner[current_blk] is read.
RECURSIVE tindices_next(_, _, _)
tindices_next(it, a, checks) ==
  IF it.buf = {}
  THEN LET len == Cardinality(DOMAIN a.inner)
       IN  IF len = 0 /\ checks
           THEN [it |-> it, item |-> -1, panic |-> TRUE]
           ELSE IF len = 0 \/ it.current_blk < len - 1
           THEN IF (it.current_blk + 1) \in DOMAIN a.inner
                THEN tindices_next([current_blk |-> it.current_blk + 1,
                                    current_bit |-> 0,
                                    buf |-> a.inner[it.current_blk + 1]],
                                   a, checks)
                ELSE [it |-> [it EXCEPT !.current_blk = @ + 1,
                                        !.current_bit = 0],
                      item |-> -1, panic |-> TRUE]
           ELSE [it |-> it, item |-> -1, panic |-> FALSE]
  ELSE yield(skip_zeros(it))

\* ------------------------------------------------------------------ RngCore
\* The simulator is generic in its RNG.  An RNG is modelled by its position in
\* its word stream; the word at that position is an input of the step that
\* draws it.  next_u32: the word and the generator after the call.
next_u32(rng, w) == [val |-> w, rng |-> rng + 1]

\* --------------------------------------------------------- RepeatSeqFakeRng
\* A u64 is the pair of its 32-bit halves, [hi, lo]; "as u32" keeps lo.
\* seq is a sequence of u64, read as seq[i + 1] for the index i of the code.
\* new: assert_ne!(seq.len(), 0), then cnt = 0.
fake_new(seq) ==
  IF Len(seq) = 0 THEN [rng |-> [cnt |-> 0, seq |-> seq], panic |-> TRUE]
  ELSE [rng |-> [cnt |-> 0, seq |-> seq], panic |-> FALSE]

\* Mutant: past the end the position restarts at 0, not 1.
fake_next_u64_restarts(r) ==
  LET i == r.cnt
  IN  IF i < Len(r.seq)
      THEN [val |-> r.seq[i + 1], rng |-> [r EXCEPT !.cnt = i + 1]]
      ELSE [val |-> r.seq[1], rng |-> [r EXCEPT !.cnt = 0]]

\* next_u64: i = cnt; cnt += 1; seq.get(i), or past the end cnt = 1 and seq[0].
fake_next_u64(r) ==
  LET i == r.cnt
  IN  IF i < Len(r.seq)
      THEN [val |-> r.seq[i + 1], rng |-> [r EXCEPT !.cnt = i + 1]]
      ELSE [val |-> r.seq[1], rng |-> [r EXCEPT !.cnt = 1]]

\* next_u32: self.next_u64() as u32.
fake_next_u32(r) ==
  LET w == fake_next_u64(r)
  IN  [val |-> w.val.lo, rng |-> w.rng]

\* --------------------------------------------------------------- construction
from_rng(n, rng) ==
  [xs       |-> [k \in 0..(n - 1) |-> zeros(n)],
   zs       |-> [k \in 0..(n - 1) |-> negate(zeros(n), k)],
   sgns     |-> zeros(n),
   measured |-> zeros(n),
   rng      |-> rng]

n_qubits(gk) == Cardinality(DOMAIN gk.xs)

\* Mutant: initialize forgets measured.reset().
initialize_keeps_measured(gk) ==
  [gk EXCEPT !.xs = [k \in DOMAIN gk.xs |-> reset(gk.xs[k])],
             !.zs = [k \in DOMAIN gk.zs |-> negate(reset(gk.zs[k]), k)],
             !.sgns = reset(gk.sgns)]

initialize(gk) ==
  [gk EXCEPT !.xs = [k \in DOMAIN gk.xs |-> reset(gk.xs[k])],
             !.zs = [k \in DOMAIN gk.zs |-> negate(reset(gk.zs[k]), k)],
             !.sgns = reset(gk.sgns),
             !.measured = reset(gk.measured)]

\* ---------------------------------------------------------------- gates
x(gk, q) ==
  [gk EXCEPT !.sgns = [i \in DOMAIN gk.sgns |->
      IF get_bool(gk.zs[i], q) THEN ~gk.sgns[i] ELSE gk.sgns[i]]]

\* Mutant: Y toggles the sign of every row with x or z set at column q.
y_when_either(gk, q) ==
  [gk EXCEPT !.sgns = [i \in DOMAIN gk.sgns |->
      IF get_bool(gk.xs[i], q) \/ get_bool(gk.zs[i], q)
      THEN ~gk.sgns[i] ELSE gk.sgns[i]]]

y(gk, q) ==
  [gk EXCEPT !.sgns = [i \in DOMAIN gk.sgns |->
      IF get_masked(gk.xs[i], q) # get_masked(gk.zs[i], q)
      THEN ~gk.sgns[i] ELSE gk.sgns[i]]]

z(gk, q) ==
  [gk EXCEPT !.sgns = [i \in DOMAIN gk.sgns |->
      IF get_bool(gk.xs[i], q) THEN ~gk.sgns[i] ELSE gk.sgns[i]]]

h(gk, q) ==
  [gk EXCEPT
     !.sgns = [i \in DOMAIN gk.sgns |->
        IF get_bool(gk.xs[i], q) /\ get_bool(gk.zs[i], q)
        THEN ~gk.sgns[i] ELSE gk.sgns[i]],
     !.xs = [i \in DOMAIN gk.xs |->
        IF get_bool(gk.xs[i], q) # get_bool(gk.zs[i], q)
        THEN negate(gk.xs[i], q) ELSE gk.xs[i]],
     !.zs = [i \in DOMAIN gk.zs |->
        IF get_bool(gk.xs[i], q) # get_bool(gk.zs[i], q)
        THEN negate(gk.zs[i], q) ELSE gk.zs[i]]]

\* Mutant: S toggles the sign when z is clear (the rule of S-dagger).
s_as_sdg(gk, q) ==
  [gk EXCEPT
     !.sgns = [i \in DOMAIN gk.sgns |->
        IF get_bool(gk.xs[i], q) /\ ~get_bool(gk.zs[i], q)
        THEN ~gk.sgns[i] ELSE gk.sgns[i]],
     !.zs = [i \in DOMAIN gk.zs |->
        IF get_bool(gk.xs[i], q) THEN negate(gk.zs[i], q) ELSE gk.zs[i]]]

s(gk, q) ==
  [gk EXCEPT
     !.sgns = [i \in DOMAIN gk.sgns |->
        IF get_bool(gk.xs[i], q) /\ get_bool(gk.zs[i], q)
        THEN ~gk.sgns[i] ELSE gk.sgns[i]],
     !.zs = [i \in DOMAIN gk.zs |->
        IF get_bool(gk.xs[i], q) THEN negate(gk.zs[i], q) ELSE gk.zs[i]]]

\* Mutant: S-dagger also toggles z at the next column.
sdg_next_column(gk, q) ==
  [gk EXCEPT
     !.sgns = [i \in DOMAIN gk.sgns |->
        IF get_bool(gk.xs[i], q) /\ ~get_bool(gk.zs[i], q)
        THEN ~gk.sgns[i] ELSE gk.sgns[i]],
     !.zs = [i \in DOMAIN gk.zs |->
        IF get_bool(gk.xs[i], q)
        THEN negate(negate(gk.zs[i], q), (q + 1) % n_qubits(gk))
        ELSE gk.zs[i]]]

sdg(gk, q) ==
  [gk EXCEPT
     !.sgns = [i \in DOMAIN gk.sgns |->
        IF get_bool(gk.xs[i], q) /\ ~get_bool(gk.zs[i], q)
        THEN ~gk.sgns[i] ELSE gk.sgns[i]],
     !.zs = [i \in DOMAIN gk.zs |->
        IF get_bool(gk.xs[i], q) THEN negate(gk.zs[i], q) ELSE gk.zs[i]]]

\* Mutant: the sign follows x[c], z[t] and whether x[t] = z[c].
cx_row_phase(xr, zr, sg, c, t) ==
  LET xc  == get_bool(xr, c)
      xr1 == IF xc THEN negate(xr, t) ELSE xr
      sg1 == IF xc /\ get_bool(zr, t) /\ (get_bool(xr, t) = get_bool(zr, c))
             THEN ~sg ELSE sg
      zr1 == IF get_bool(zr, t) THEN negate(zr, c) ELSE zr
  IN  [xr |-> xr1, zr |-> zr1, sg |-> sg1]

\* One row of cx, statement by statement: xs[c] is read first, zs[c] is read
\* for the sign before zs changes, and zs[t] is read last (c = t included).
cx_row(xr, zr, sg, c, t) ==
  LET xc  == get_bool(xr, c)
      xr1 == IF xc THEN negate(xr, t) ELSE xr
      sg1 == IF xc /\ get_bool(zr, c) THEN ~sg ELSE sg
      zr1 == IF get_bool(zr, t) THEN negate(zr, c) ELSE zr
  IN  [xr |-> xr1, zr |-> zr1, sg |-> sg1]

\* Mutant: cx forgets the z update (zs[c] ^= zs[t]).
cx_no_z(gk, c, t) ==
  [gk EXCEPT !.xs = [i \in DOMAIN gk.xs |->
                IF get_bool(gk.xs[i], c) THEN negate(gk.xs[i], t) ELSE gk.xs[i]],
             !.sgns = [i \in DOMAIN gk.sgns |->
                IF get_bool(gk.xs[i], c) /\ get_bool(gk.zs[i], c)
                THEN ~gk.sgns[i] ELSE gk.sgns[i]]]

cx(gk, c, t) ==
  LET row(i) == cx_row(gk.xs[i], gk.zs[i], gk.sgns[i], c, t)
  IN  [gk EXCEPT !.xs = [i \in DOMAIN gk.xs |-> row(i).xr],
                 !.zs = [i \in DOMAIN gk.zs |-> row(i).zr],
                 !.sgns = [i \in DOMAIN gk.sgns |-> row(i).sg]]

\* ---------------------------------------------------------------- measurement
Min(S) == CHOOSE m \in S : \A o \in S : m <= o

\* Mutant: the last element is removed, whichever position is asked for.
swap_remove_last(v, pos) == SubSeq(v, 1, Len(v) - 1)

\* Vec::swap_remove at 0-based index pos - 1: the last element takes the place.
swap_remove(v, pos) ==
  LET front == SubSeq(v, 1, Len(v) - 1)
  IN  IF pos = Len(v) THEN front ELSE [front EXCEPT ![pos] = v[Len(v)]]

\* Mutant: mult_to leaves the destination row as it is.
mult_to_nothing(gk, dest, src) == gk

\* mult_to asserts dest # src; its callers pass noncommutatives[1..] and
\* noncommutatives[0], which differ.  The sign of dest becomes the sign of src.
mult_to(gk, dest, src) ==
  [gk EXCEPT !.xs[dest] = xor_all(gk.xs[dest], gk.xs[src]),
             !.zs[dest] = xor_all(gk.zs[dest], gk.zs[src]),
             !.sgns = set_bool(gk.sgns, dest, get_bool(gk.sgns, src))]

\* Mutant: the loop over noncommutatives[1..] is not run.
mult_rest_skipped(gk, js, i) == gk

\* for &j in noncommutatives[1..] { mult_to(gk, j, i) }, in ascending order.
RECURSIVE mult_rest(_, _, _)
mult_rest(gk, js, i) ==
  IF js = {} THEN gk
  ELSE LET j == Min(js) IN mult_rest(mult_to(gk, j, i), js \ {j}, i)

\* Mutant: the pivot's sign is not carried into the rows it is added to.
pivot_step_no_sign(gk, indices, inds) ==
  LET first == Min(inds)
      p     == indices[first]
      dests == {indices[j] : j \in inds \ {first}}
  IN  [gk |-> [gk EXCEPT
                 !.xs = [k \in DOMAIN gk.xs |->
                    IF k \in dests THEN xor_all(gk.xs[k], gk.xs[p]) ELSE gk.xs[k]],
                 !.zs = [k \in DOMAIN gk.zs |->
                    IF k \in dests THEN xor_all(gk.zs[k], gk.zs[p]) ELSE gk.zs[k]]],
       indices |-> swap_remove(indices, first)]

\* Mutant: the pivot stays in the list of live rows.
pivot_step_keeps_live(gk, indices, inds) ==
  LET first == Min(inds)
      p     == indices[first]
      dests == {indices[j] : j \in inds \ {first}}
      sg0   == get_bool(gk.sgns, p)
  IN  [gk |-> [gk EXCEPT
                 !.xs = [k \in DOMAIN gk.xs |->
                    IF k \in dests THEN xor_all(gk.xs[k], gk.xs[p]) ELSE gk.xs[k]],
                 !.zs = [k \in DOMAIN gk.zs |->
                    IF k \in dests THEN xor_all(gk.zs[k], gk.zs[p]) ELSE gk.zs[k]],
                 !.sgns = [k \in DOMAIN gk.sgns |->
                    IF k \in dests /\ sg0 THEN ~gk.sgns[k] ELSE gk.sgns[k]]],
       indices |-> indices]

\* The body of "if !x_inds.is_empty()" of either pass: inds are the positions
\* (1-based here) in indices of the rows that have the bit set.  The pivot row
\* indices[inds[0]] is read through a raw-pointer alias while the other rows are
\* written; the destinations are other rows, so the pivot is the same before
\* and after and every build reads the same words.
pivot_step(gk, indices, inds) ==
  LET first == Min(inds)
      p     == indices[first]
      dests == {indices[j] : j \in inds \ {first}}
      sg0   == get_bool(gk.sgns, p)
  IN  [gk |-> [gk EXCEPT
                 !.xs = [k \in DOMAIN gk.xs |->
                    IF k \in dests THEN xor_all(gk.xs[k], gk.xs[p]) ELSE gk.xs[k]],
                 !.zs = [k \in DOMAIN gk.zs |->
                    IF k \in dests THEN xor_all(gk.zs[k], gk.zs[p]) ELSE gk.zs[k]],
                 !.sgns = [k \in DOMAIN gk.sgns |->
                    IF k \in dests /\ sg0 THEN ~gk.sgns[k] ELSE gk.sgns[k]]],
       indices |-> swap_remove(indices, first)]

\* The three fields of row k.
row_of(gk, k) == <<gk.xs[k], gk.zs[k], gk.sgns[k]>>

\* One turn of the loop of either pass: inds are the positions in indices
\* that the filter found.  The log keeps, for each turn, the live indices the
\* filter read, the pivot (-1 if there was none), the rows written, and the
\* pivot row before and after.
scan(st, inds) ==
  LET hit   == inds # {}
      first == Min(inds)
      p     == IF hit THEN st.indices[first] ELSE -1
      r     == IF hit THEN pivot_step(st.gk, st.indices, inds)
               ELSE [gk |-> st.gk, indices |-> st.indices]
  IN  [gk |-> r.gk, indices |-> r.indices,
       log |-> Append(st.log,
                 [live   |-> st.indices,
                  pivot  |-> p,
                  dests  |-> IF hit
                             THEN {st.indices[j] : j \in inds \ {first}}
                             ELSE {},
                  before |-> IF hit THEN row_of(st.gk, p) ELSE <<>>,
                  after  |-> IF hit THEN row_of(r.gk, p) ELSE <<>>])]

\* First pass: for i in 0..n_qubits, on the x bit of column i.
RECURSIVE x_pass(_, _)
x_pass(st, i) ==
  IF i >= n_qubits(st.gk) THEN st
  ELSE LET x_inds == {j \in 1..Len(st.indices) :
                         get_bool(st.gk.xs[st.indices[j]], i)}
       IN  x_pass(scan(st, x_inds), i + 1)

RECURSIVE z_pass(_, _, _)

\* Mutant: the second pass does not skip column q.
z_pass_no_skip(st, i, q) ==
  IF i >= n_qubits(st.gk) THEN st
  ELSE LET z_inds == {j \in 1..Len(st.indices) :
                         get_bool(st.gk.zs[st.indices[j]], i)}
       IN  z_pass(scan(st, z_inds), i + 1, -1)

\* Second pass: for i in 0..n_qubits, skipping i = q, on the z bit of column i.
z_pass(st, i, q) ==
  IF i >= n_qubits(st.gk) THEN st
  ELSE IF i = q THEN z_pass(st, i + 1, q)
  ELSE LET z_inds == {j \in 1..Len(st.indices) :
                         get_bool(st.gk.zs[st.indices[j]], i)}
       IN  z_pass(scan(st, z_inds), i + 1, q)

\* The two passes of the deterministic branch, from indices = (0..n_qubits):
\* the simulator and the live row indices just before assert_eq!.
det_passes(gk, q) ==
  LET n   == n_qubits(gk)
      st0 == [gk |-> gk, indices |-> [j \in 1..n |-> j - 1], log |-> <<>>]
  IN  z_pass(x_pass(st0, 0), 0, q)

\* (gk.rng.next_u32() & 1) != 0
is_one_nonzero(val) == val # 0

is_one(val) == (val % 2) # 0

\* The free function measure, w being the word the RNG returns if asked: the
\* simulator after it, the bit it returns, whether it took the deterministic
\* branch and whether assert_eq!(indices.len(), 1) failed.
measure(gk, q, w) ==
  LET noncommutatives == {k \in DOMAIN gk.xs : get_bool(gk.xs[k], q)}
  IN  IF noncommutatives = {}
      THEN LET st2 == det_passes(gk, q)
               ok  == Len(st2.indices) = 1
           IN  [gk |-> st2.gk, det |-> TRUE, panic |-> ~ok,
                bit |-> IF ok THEN get_bool(st2.gk.sgns, st2.indices[1])
                        ELSE FALSE]
      ELSE LET i      == Min(noncommutatives)
               g1     == mult_rest(gk, noncommutatives \ {i}, i)
               r      == next_u32(g1.rng, w)
               one    == is_one(r.val)
               g2     == [g1 EXCEPT !.rng = r.rng,
                            !.xs[i] = reset(g1.xs[i]),
                            !.zs[i] = negate(reset(g1.zs[i]), q),
                            !.sgns = set_bool(g1.sgns, i, one)]
           IN  [gk |-> g2, det |-> FALSE, panic |-> FALSE,
                bit |-> one]

\* Mutant: the outcome goes to slot q.
measure_to_own_slot(gk, q, ch, w) ==
  LET m == measure(gk, q, w)
  IN  [m EXCEPT !.gk.measured =
         IF m.panic THEN @ ELSE set_bool(@, q, m.bit)]

\* GottesmanKnillSimulator::measure(q, ch): the outcome goes to slot ch.
measure_to(gk, q, ch, w) ==
  LET m == measure(gk, q, w)
  IN  [m EXCEPT !.gk.measured =
         IF m.panic THEN @ ELSE set_bool(@, ch, m.bit)]

\* ------------------------------------------- the simulator, word by word
\* from_rng, without the RNG.
block_from_rng(n) ==
  [xs       |-> [k \in 0..(n - 1) |-> block_zeros(n)],
   zs       |-> [k \in 0..(n - 1) |-> block_negate(block_zeros(n), k).a],
   sgns     |-> block_zeros(n),
   measured |-> block_zeros(n)]

\* self.sgns.negate(i) for the rows i of S, which are in range for sgns.
RECURSIVE block_negate_rows(_, _)
block_negate_rows(sg, S) ==
  IF S = {} THEN sg
  ELSE block_negate_rows(block_negate(sg, Min(S)).a, S \ {Min(S)})

\* A gate reads column q of the rows in turn and panics at the first read
\* that is out of bounds; every row has the same number of blocks, so that is
\* the first row, before any write.
block_x(w, q) ==
  IF \E i \in DOMAIN w.zs : block_get_bool(w.zs[i], q).panic
  THEN [w |-> w, panic |-> TRUE]
  ELSE [w |-> [w EXCEPT !.sgns = block_negate_rows(@,
                 {i \in DOMAIN w.zs : block_get_bool(w.zs[i], q).val})],
        panic |-> FALSE]

block_z(w, q) ==
  IF \E i \in DOMAIN w.xs : block_get_bool(w.xs[i], q).panic
  THEN [w |-> w, panic |-> TRUE]
  ELSE [w |-> [w EXCEPT !.sgns = block_negate_rows(@,
                 {i \in DOMAIN w.xs : block_get_bool(w.xs[i], q).val})],
        panic |-> FALSE]

\* h on one row; flip says whether sgns.negate(i) is called.
block_h_row(xr, zr, q) ==
  LET xq   == block_get_bool(xr, q)
      zq   == block_get_bool(zr, q)
      swap == xq.val # zq.val
  IN  [xr |-> IF swap THEN block_negate(xr, q).a ELSE xr,
       zr |-> IF swap THEN block_negate(zr, q).a ELSE zr,
       flip |-> xq.val /\ zq.val,
       panic |-> xq.panic \/ zq.panic]

block_h(w, q) ==
  LET row(i) == block_h_row(w.xs[i], w.zs[i], q)
  IN  IF \E i \in DOMAIN w.xs : row(i).panic
      THEN [w |-> w, panic |-> TRUE]
      ELSE [w |-> [w EXCEPT
                     !.xs = [i \in DOMAIN w.xs |-> row(i).xr],
                     !.zs = [i \in DOMAIN w.zs |-> row(i).zr],
                     !.sgns = block_negate_rows(@,
                                {i \in DOMAIN w.xs : row(i).flip})],
            panic |-> FALSE]

\* cx on one row: xs.get_bool(c), xs.negate(t), zs.get_bool(c), then
\* zs.get_bool(t), zs.negate(c); flip says whether sgns.negate(i) is called.
block_cx_row(xr, zr, c, t) ==
  LET none == [val |-> FALSE, panic |-> FALSE]
      xc   == block_get_bool(xr, c)
      xn   == IF xc.val THEN block_negate(xr, t) ELSE [a |-> xr, panic |-> FALSE]
      zc   == IF xc.val THEN block_get_bool(zr, c) ELSE none
      zt   == block_get_bool(zr, t)
      zn   == IF zt.val THEN block_negate(zr, c) ELSE [a |-> zr, panic |-> FALSE]
  IN  [xr |-> xn.a, zr |-> zn.a, flip |-> xc.val /\ zc.val,
       panic |-> xc.panic \/ xn.panic \/ zc.panic \/ zt.panic \/ zn.panic]

block_cx(w, c, t) ==
  LET row(i) == block_cx_row(w.xs[i], w.zs[i], c, t)
  IN  IF \E i \in DOMAIN w.xs : row(i).panic
      THEN [w |-> w, panic |-> TRUE]
      ELSE [w |-> [w EXCEPT
                     !.xs = [i \in DOMAIN w.xs |-> row(i).xr],
                     !.zs = [i \in DOMAIN w.zs |-> row(i).zr],
                     !.sgns = block_negate_rows(@,
                                {i \in DOMAIN w.xs : row(i).flip})],
            panic |-> FALSE]

\* ------------------------------------------------- reference (phase-tracking)
\* The Aaronson-Gottesman tableau rules on a tableau T = [xs, zs, sgns], where
\* a row with x = z = 1 in a column holds Y there.  Used only to state what a
\* correct stabilizer simulation returns; it models no code.
B(b) == IF b THEN 1 ELSE 0

\* Exponent of i picked up when the Pauli (x1, z1) is multiplied by (x2, z2).
ag_g(x1, z1, x2, z2) ==
  IF ~x1 /\ ~z1 THEN 0
  ELSE IF x1 /\ z1 THEN B(z2) - B(x2)
  ELSE IF x1 THEN B(z2) * (2 * B(x2) - 1)
  ELSE B(x2) * (1 - 2 * B(z2))

RECURSIVE ag_gsum(_, _, _, _)
ag_gsum(T, dest, src, j) ==
  IF j < 0 THEN 0
  ELSE ag_g(T.xs[src][j], T.zs[src][j], T.xs[dest][j], T.zs[dest][j])
       + ag_gsum(T, dest, src, j - 1)

\* rowsum: row dest becomes (row src) * (row dest), phase included.
ag_rowsum(T, dest, src) ==
  LET total == 2 * B(T.sgns[dest]) + 2 * B(T.sgns[src])
               + ag_gsum(T, dest, src, Cardinality(DOMAIN T.sgns) - 1)
  IN  [xs   |-> [T.xs EXCEPT ![dest] = xor_all(T.xs[dest], T.xs[src])],
       zs   |-> [T.zs EXCEPT ![dest] = xor_all(T.zs[dest], T.zs[src])],
       sgns |-> [T.sgns EXCEPT ![dest] = (total % 4) >= 2]]

RECURSIVE ag_rowsum_all(_, _, _)
ag_rowsum_all(T, dests, src) ==
  IF dests = {} THEN T
  ELSE LET d == Min(dests)
       IN  ag_rowsum_all(ag_rowsum(T, d, src), dests \ {d}, src)

ag_h(T, q) ==
  [xs   |-> [i \in DOMAIN T.xs |-> [T.xs[i] EXCEPT ![q] = T.zs[i][q]]],
   zs   |-> [i \in DOMAIN T.zs |-> [T.zs[i] EXCEPT ![q] = T.xs[i][q]]],
   sgns |-> [i \in DOMAIN T.sgns |-> T.sgns[i] # (T.xs[i][q] /\ T.zs[i][q])]]

ag_s(T, q) ==
  [xs   |-> T.xs,
   zs   |-> [i \in DOMAIN T.zs |-> [T.zs[i] EXCEPT ![q] = @ # T.xs[i][q]]],
   sgns |-> [i \in DOMAIN T.sgns |-> T.sgns[i] # (T.xs[i][q] /\ T.zs[i][q])]]

ag_cnot(T, c, t) ==
  [xs   |-> [i \in DOMAIN T.xs |-> [T.xs[i] EXCEPT ![t] = @ # T.xs[i][c]]],
   zs   |-> [i \in DOMAIN T.zs |-> [T.zs[i] EXCEPT ![c] = @ # T.zs[i][t]]],
   sgns |-> [i \in DOMAIN T.sgns |->
               T.sgns[i] # (T.xs[i][c] /\ T.zs[i][t]
                            /\ (T.xs[i][t] = T.zs[i][c]))]]

\* Z = S S, X = H Z H, Y = X then Z (up to a global phase), S-dagger = S S S.
ag_z(T, q) == ag_s(ag_s(T, q), q)
ag_x(T, q) == ag_h(ag_z(ag_h(T, q), q), q)
ag_y(T, q) == ag_z(ag_x(T, q), q)
ag_sdg(T, q) == ag_s(ag_s(ag_s(T, q), q), q)

ag_init(T) ==
  [xs   |-> [k \in DOMAIN T.xs |-> [j \in DOMAIN T.xs |-> FALSE]],
   zs   |-> [k \in DOMAIN T.xs |-> [j \in DOMAIN T.xs |-> j = k]],
   sgns |-> [k \in DOMAIN T.xs |-> FALSE]]

\* The elimination of the deterministic branch, row by row as the simulator
\* does it (same pivots, same order), multiplying with rowsum.
ag_pivot_step(T, indices, inds) ==
  LET first == Min(inds)
  IN  [T |-> ag_rowsum_all(T, {indices[j] : j \in inds \ {first}},
                           indices[first]),
       indices |-> swap_remove(indices, first)]

RECURSIVE ag_pass(_, _, _, _)
ag_pass(st, i, skip, onX) ==
  IF i >= Cardinality(DOMAIN st.T.xs) THEN st
  ELSE IF i = skip THEN ag_pass(st, i + 1, skip, onX)
  ELSE LET inds == {j \in 1..Len(st.indices) :
                       IF onX THEN st.T.xs[st.indices[j]][i]
                       ELSE st.T.zs[st.indices[j]][i]}
       IN  ag_pass(IF inds # {} THEN ag_pivot_step(st.T, st.indices, inds)
                   ELSE st, i + 1, skip, onX)

\* Measurement of qubit q; b is the bit a random outcome takes.
ag_measure(T, q, b) ==
  LET N == {k \in DOMAIN T.xs : T.xs[k][q]}
  IN  IF N = {}
      THEN LET n   == Cardinality(DOMAIN T.xs)
               st0 == [T |-> T, indices |-> [j \in 1..n |-> j - 1]]
               st2 == ag_pass(ag_pass(st0, 0, -1, TRUE), 0, q, FALSE)
           IN  [T |-> st2.T, forced |-> TRUE,
                bit |-> IF Len(st2.indices) = 1
                        THEN st2.T.sgns[st2.indices[1]] ELSE FALSE]
      ELSE LET p  == Min(N)
               T1 == ag_rowsum_all(T, N \ {p}, p)
           IN  [T |-> [xs   |-> [T1.xs EXCEPT ![p] = [j \in DOMAIN T.xs |-> FALSE]],
                       zs   |-> [T1.zs EXCEPT ![p] = [j \in DOMAIN T.xs |-> j = q]],
                       sgns |-> [T1.sgns EXCEPT ![p] = b]],
                forced |-> FALSE, bit |-> b]

\* ---------------------------------------------------------------- state
VARIABLES
  xs, zs, sgns, measured, rng,  \* the fields of GottesmanKnillSimulator
  buf,        \* the caller's buffer, written by receive
  aborted,    \* the process has panicked
  ref,        \* the reference tableau, run side by side
  nrand,      \* number of random-branch measurements made so far
  classical,  \* only X, CX and MEAS were applied since INIT or construction
  cbits,      \* the bits of the classical circuit, while classical
  legal,      \* no CX with c = t was applied
  script,     \* progress of a Bell/GHZ circuit (pc = "off": not followed)
  twin,       \* a second simulator, constructed like the first (SpecTwin)
  lag,        \* the batches the first simulator has had and twin not yet
  seed,       \* the word stream both RNGs of SpecTwin hold, by position
  wsim,       \* a simulator whose bit vectors are kept as words (SpecBits)
  wabort,     \* an operation on wsim has panicked
  fake,       \* a RepeatSeqFakeRng and the state of its construction (SpecFake)
  freq,       \* number of words requested from fake so far
  fres,       \* the word the last request returned
  arrs,       \* two BitArrays of a caller, kept as words (SpecSet, SpecIndices)
  bpanic,     \* an operation on arrs or on tind has panicked
  tind,       \* a TIndices over arrs[1], once true_indices was called
  tout        \* the indices tind has yielded so far

simvars == <<xs, zs, sgns, measured, rng>>
twinvars == <<twin, lag, seed>>
bitvars == <<wsim, wabort>>
fakevars == <<fake, freq, fres>>
setvars == <<arrs, bpanic, tind, tout>>
vars == <<xs, zs, sgns, measured, rng, buf, aborted, ref, nrand, classical,
          cbits, legal, script, twin, lag, seed, wsim, wabort, fake, freq,
          fres, arrs, bpanic, tind, tout>>

GK == [xs |-> xs, zs |-> zs, sgns |-> sgns, measured |-> measured, rng |-> rng]

Qubits == DOMAIN xs
Slots == DOMAIN measured

LowBit(w) == (w % 2) # 0

Apply(g) ==
  /\ xs' = g.xs
  /\ zs' = g.zs
  /\ sgns' = g.sgns
  /\ measured' = g.measured
  /\ rng' = g.rng

\* BitArray::copy_from is not in bitarray.rs; receive "copies the internal
\* measured bitset into the caller-supplied buffer (which may be resized)".
copy_from(dst, src) == src

\* ------------------------------------------------------- history variables
Op(id, a, b, w) == [id |-> id, a |-> a, b |-> b, w |-> w]

\* The reference simulation of one operation.
ag_apply(T, op) ==
  CASE op.id = "INIT" -> ag_init(T)
    [] op.id = "X"    -> ag_x(T, op.a)
    [] op.id = "Y"    -> ag_y(T, op.a)
    [] op.id = "Z"    -> ag_z(T, op.a)
    [] op.id = "H"    -> ag_h(T, op.a)
    [] op.id = "S"    -> ag_s(T, op.a)
    [] op.id = "SDG"  -> ag_sdg(T, op.a)
    [] op.id = "CX"   -> ag_cnot(T, op.a, op.b)
    [] op.id = "MEAS" -> ag_measure(T, op.a, LowBit(op.w)).T
    [] OTHER          -> T

\* The classical circuit: X(q) flips bit q, CX(c, t) XORs bit c into bit t.
classical_apply(bits, op) ==
  CASE op.id = "X"  -> [bits EXCEPT ![op.a] = ~@]
    [] op.id = "CX" -> [bits EXCEPT ![op.b] = @ # bits[op.a]]
    [] OTHER        -> bits

\* A Bell/GHZ circuit: after INIT, any number of H(a) on a fresh qubit a, each
\* followed by CX(a, b) on fresh qubits b (the group of a), then measurements.
\* grp[q] is 0 for a qubit in no group and root + 1 otherwise; first[g] is the
\* low bit ("one" or "zero") of the word the first measurement of group g drew
\* ("nodraw" if it drew none, "none" before it); slotgrp[ch] is the group of
\* the qubit last measured into ch.
ScriptStart(n) ==
  [pc |-> "prep", cur |-> 0,
   grp |-> [q \in 0..(n - 1) |-> 0],
   first |-> [g \in 1..n |-> "none"],
   slotgrp |-> [ch \in 0..(n - 1) |-> 0]]

ScriptOff(n) == [ScriptStart(n) EXCEPT !.pc = "off"]

OnOp(sc, op, random) ==
  LET n   == Cardinality(DOMAIN sc.grp)
      off == ScriptOff(n)
  IN  IF sc.pc = "off" THEN sc
      ELSE CASE op.id = "INIT" -> ScriptStart(n)
             [] op.id = "RECV" -> sc
             [] op.id = "H" ->
                  IF sc.pc = "prep" /\ sc.grp[op.a] = 0
                  THEN [sc EXCEPT !.cur = op.a + 1, !.grp[op.a] = op.a + 1]
                  ELSE off
             [] op.id = "CX" ->
                  IF /\ sc.pc = "prep"
                     /\ sc.cur = op.a + 1
                     /\ op.b # op.a
                     /\ sc.grp[op.b] = 0
                  THEN [sc EXCEPT !.grp[op.b] = sc.cur]
                  ELSE off
             [] op.id = "MEAS" ->
                  LET g == sc.grp[op.a]
                  IN  [sc EXCEPT
                         !.pc = "meas",
                         !.cur = 0,
                         !.slotgrp[op.b] = g,
                         !.first = IF g # 0 /\ sc.first[g] = "none"
                                   THEN [sc.first EXCEPT ![g] =
                                           IF ~random THEN "nodraw"
                                           ELSE IF LowBit(op.w) THEN "one"
                                           ELSE "zero"]
                                   ELSE sc.first]
             [] OTHER -> off

Track(op) ==
  LET random == op.id = "MEAS" /\ \E k \in Qubits : xs[k][op.a]
  IN  /\ ref' = ag_apply(ref, op)
      /\ nrand' = nrand + (IF random THEN 1 ELSE 0)
      /\ classical' = IF op.id = "INIT" THEN TRUE
                      ELSE IF op.id \in {"X", "CX", "MEAS", "RECV"}
                           THEN classical
                           ELSE FALSE
      /\ cbits' = IF op.id \in {"X", "CX", "MEAS", "RECV"} /\ classical
                  THEN classical_apply(cbits, op)
                  ELSE reset(cbits)
      /\ legal' = (legal /\ ~(op.id = "CX" /\ op.a = op.b))
      /\ script' = OnOp(script, op, random)
      /\ UNCHANGED <<twinvars, bitvars, fakevars, setvars>>

\* ---------------------------------------------------------------- initial states
InitBase(n, sc, sd) ==
  /\ LET g == from_rng(n, 0)
     IN  /\ xs = g.xs
         /\ zs = g.zs
         /\ sgns = g.sgns
         /\ measured = g.measured
         /\ rng = g.rng
         /\ ref = [xs |-> g.xs, zs |-> g.zs, sgns |-> g.sgns]
  /\ buf = zeros(0)
  /\ aborted = FALSE
  /\ nrand = 0
  /\ classical = TRUE
  /\ cbits = zeros(n)
  /\ legal = TRUE
  /\ script = sc
  /\ twin = from_rng(n, 0)
  /\ lag = <<>>
  /\ seed = sd
  /\ wsim = block_from_rng(n)
  /\ wabort = FALSE
  /\ arrs = <<block_zeros(0), block_zeros(0)>>
  /\ bpanic = FALSE
  /\ tind = [state |-> "none", current_blk |-> 0, current_bit |-> 0, buf |-> {}]
  /\ tout = <<>>

\* Outside SpecFake no RepeatSeqFakeRng is built.
InitAll(n, sc, sd) ==
  /\ InitBase(n, sc, sd)
  /\ fake = [state |-> "none", cnt |-> 0, seq |-> <<>>]
  /\ freq = 0
  /\ fres = <<>>

\* Outside SpecTwin the word a measurement draws is an input of the step and
\* seed is not read.
InitWith(n, sc) == InitAll(n, sc, <<>>)

Init == InitWith(NQ, ScriptOff(NQ))

\* ---------------------------------------------------------------- actions
\* One operation of the batch given to send, dispatched on shape and opcode.
InitOp ==
  /\ ~aborted
  /\ Apply(initialize(GK))
  /\ Track(Op("INIT", -1, -1, 0))
  /\ UNCHANGED <<buf, aborted>>

XGate(q) ==
  /\ ~aborted
  /\ Apply(x(GK, q))
  /\ Track(Op("X", q, -1, 0))
  /\ UNCHANGED <<buf, aborted>>

YGate(q) ==
  /\ ~aborted
  /\ Apply(y(GK, q))
  /\ Track(Op("Y", q, -1, 0))
  /\ UNCHANGED <<buf, aborted>>

ZGate(q) ==
  /\ ~aborted
  /\ Apply(z(GK, q))
  /\ Track(Op("Z", q, -1, 0))
  /\ UNCHANGED <<buf, aborted>>

HGate(q) ==
  /\ ~aborted
  /\ Apply(h(GK, q))
  /\ Track(Op("H", q, -1, 0))
  /\ UNCHANGED <<buf, aborted>>

SGate(q) ==
  /\ ~aborted
  /\ Apply(s(GK, q))
  /\ Track(Op("S", q, -1, 0))
  /\ UNCHANGED <<buf, aborted>>

SdgGate(q) ==
  /\ ~aborted
  /\ Apply(sdg(GK, q))
  /\ Track(Op("SDG", q, -1, 0))
  /\ UNCHANGED <<buf, aborted>>

\* CX with any two indices in range.
CXStep(c, t) ==
  /\ ~aborted
  /\ Apply(cx(GK, c, t))
  /\ Track(Op("CX", c, t, 0))
  /\ UNCHANGED <<buf, aborted>>

\* CX on two distinct qubits.
CXGate(c, t) == c # t /\ CXStep(c, t)

\* MEAS(q, ch); w is the word the RNG holds next.  At most MaxDraws words are
\* drawn in a run.
Meas(q, ch, w) ==
  LET m == measure_to(GK, q, ch, w)
  IN  /\ ~aborted
      /\ m.gk.rng <= MaxDraws
      /\ Apply(m.gk)
      /\ aborted' = m.panic
      /\ Track(Op("MEAS", q, ch, w))
      /\ UNCHANGED buf

Receive ==
  /\ ~aborted
  /\ buf' = copy_from(buf, measured)
  /\ Track(Op("RECV", -1, -1, 0))
  /\ UNCHANGED <<simvars, aborted>>

Next ==
  \/ InitOp
  \/ \E q \in Qubits : XGate(q)
  \/ \E q \in Qubits : YGate(q)
  \/ \E q \in Qubits : ZGate(q)
  \/ \E q \in Qubits : HGate(q)
  \/ \E q \in Qubits : SGate(q)
  \/ \E q \in Qubits : SdgGate(q)
  \/ \E c \in Qubits, t \in Qubits : CXGate(c, t)
  \/ \E q \in Qubits, ch \in Slots, w \in Words : Meas(q, ch, w)

Spec == Init /\ [][Next]_vars

\* All of Next, and receive.
NextIO ==
  \/ Next
  \/ Receive

SpecIO == Init /\ [][NextIO]_vars

\* CX with c = t allowed.
NextAnyCX ==
  \/ InitOp
  \/ \E q \in Qubits : XGate(q)
  \/ \E q \in Qubits : YGate(q)
  \/ \E q \in Qubits : ZGate(q)
  \/ \E q \in Qubits : HGate(q)
  \/ \E q \in Qubits : SGate(q)
  \/ \E q \in Qubits : SdgGate(q)
  \/ \E c \in Qubits, t \in Qubits : CXStep(c, t)
  \/ \E q \in Qubits, ch \in Slots, w \in Words : Meas(q, ch, w)

SpecAnyCX == Init /\ [][NextAnyCX]_vars

\* The classical fragment: X, CX on distinct qubits and MEAS after INIT.
InitClassical == InitWith(NC, ScriptOff(NC))

NextClassical ==
  \/ InitOp
  \/ \E q \in Qubits : XGate(q)
  \/ \E c \in Qubits, t \in Qubits : CXGate(c, t)
  \/ \E q \in Qubits, ch \in Slots, w \in Words : Meas(q, ch, w)

SpecClassical == InitClassical /\ [][NextClassical]_vars

\* Bell and GHZ circuits on 2..NG qubits, then measurements in any order: of
\* qubit q into slot q and, once slot q is written, also into the next slot.
InitGHZ == \E n \in 2..NG : InitWith(n, ScriptStart(n))

SlotsFor(q) ==
  IF script.slotgrp[q] # 0 THEN {q, (q + 1) % n_qubits(GK)} ELSE {q}

Scripted(op) == OnOp(script, op, FALSE).pc # "off"

NextGHZ ==
  \/ InitOp
  \/ \E q \in Qubits : Scripted(Op("H", q, -1, 0)) /\ HGate(q)
  \/ \E c \in Qubits, t \in Qubits :
       Scripted(Op("CX", c, t, 0)) /\ CXGate(c, t)
  \/ \E q \in Qubits, w \in Words : \E ch \in SlotsFor(q) : Meas(q, ch, w)

SpecGHZ == InitGHZ /\ [][NextGHZ]_vars

\* Every gate on 2 qubits, or a Bell/GHZ circuit on 2..NG qubits.
InitRows == Init \/ InitGHZ

NextRows ==
  \/ script.pc = "off" /\ Next
  \/ script.pc # "off" /\ NextGHZ

SpecRows == InitRows /\ [][NextRows]_vars

\* ---------------------------------------------------------------- batches
\* Most operations in a batch handed to send by SpecBatch.
MaxBatch == 2

histvars == <<ref, nrand, classical, cbits, legal, script>>

\* An operation of a batch: its shape (Empty, Q, QS or QQ), its opcode and
\* its arguments.
OpArgs(shape, id, a, b) == [shape |-> shape, id |-> id, a |-> a, b |-> b]

\* What an arm of send's match leaves: the simulator, and whether it panicked.
arm(m) == [gk |-> m.gk, panic |-> m.panic]

\* Mutant: an operation that fits no arm is skipped.
dispatch_skips_unknown(gk, op, ws) ==
  LET done(g) == [gk |-> g, panic |-> FALSE]
  IN  CASE op.shape = "Empty" /\ op.id = "INIT" -> done(initialize(gk))
        [] op.shape = "Q" /\ op.id = "X"   -> done(x(gk, op.a))
        [] op.shape = "Q" /\ op.id = "Y"   -> done(y(gk, op.a))
        [] op.shape = "Q" /\ op.id = "Z"   -> done(z(gk, op.a))
        [] op.shape = "Q" /\ op.id = "H"   -> done(h(gk, op.a))
        [] op.shape = "Q" /\ op.id = "S"   -> done(s(gk, op.a))
        [] op.shape = "Q" /\ op.id = "SDG" -> done(sdg(gk, op.a))
        [] op.shape = "QS" /\ op.id = "MEAS" ->
             arm(measure_to(gk, op.a, op.b, ws[gk.rng]))
        [] op.shape = "QQ" /\ op.id = "CX" -> done(cx(gk, op.a, op.b))
        [] OTHER -> [gk |-> gk, panic |-> FALSE]

\* The body of send's loop: the match on shape and opcode.  ws gives the word
\* the RNG holds at each position.  An arm that is unimplemented! panics.
dispatch(gk, op, ws) ==
  LET done(g) == [gk |-> g, panic |-> FALSE]
  IN  CASE op.shape = "Empty" /\ op.id = "INIT" -> done(initialize(gk))
        [] op.shape = "Q" /\ op.id = "X"   -> done(x(gk, op.a))
        [] op.shape = "Q" /\ op.id = "Y"   -> done(y(gk, op.a))
        [] op.shape = "Q" /\ op.id = "Z"   -> done(z(gk, op.a))
        [] op.shape = "Q" /\ op.id = "H"   -> done(h(gk, op.a))
        [] op.shape = "Q" /\ op.id = "S"   -> done(s(gk, op.a))
        [] op.shape = "Q" /\ op.id = "SDG" -> done(sdg(gk, op.a))
        [] op.shape = "QS" /\ op.id = "MEAS" ->
             arm(measure_to(gk, op.a, op.b, ws[gk.rng]))
        [] op.shape = "QQ" /\ op.id = "CX" -> done(cx(gk, op.a, op.b))
        [] OTHER -> [gk |-> gk, panic |-> TRUE]

\* for op in ops.iter(), from the k-th operation on; a panic ends the loop.
RECURSIVE send_from(_, _, _, _)

\* After the k-th operation left r: stop on a panic, else go on with k + 1.
send_on(r, ops, k, ws) ==
  IF r.panic THEN r ELSE send_from(r.gk, ops, k + 1, ws)

send_from(gk, ops, k, ws) ==
  IF k > Len(ops) THEN [gk |-> gk, panic |-> FALSE]
  ELSE send_on(dispatch(gk, ops[k], ws), ops, k, ws)

\* Mutant: send clears the measurement buffer before the batch.
send_clears_buffer(gk, ops, ws) ==
  send_from([gk EXCEPT !.measured = reset(gk.measured)], ops, 1, ws)

send(gk, ops, ws) == send_from(gk, ops, 1, ws)

\* receive, as a function of the simulator and the caller's buffer.
receive(gk, b) == copy_from(b, gk.measured)

\* send_receive: send, then receive (not reached when send panics).
receive_after(r, b) ==
  [gk |-> r.gk, panic |-> r.panic,
   buf |-> IF r.panic THEN b ELSE receive(r.gk, b)]

send_receive(gk, b, ops, ws) == receive_after(send(gk, ops, ws), b)

\* Every well-formed operation on qubits and slots in range (CX on distinct
\* qubits).
GoodOps ==
  {OpArgs("Empty", "INIT", -1, -1)}
    \cup {OpArgs("Q", id, q, -1) :
            id \in {"X", "Y", "Z", "H", "S", "SDG"}, q \in Qubits}
    \cup {OpArgs("QS", "MEAS", q, ch) : q \in Qubits, ch \in Slots}
    \cup {OpArgs("QQ", "CX", ct[1], ct[2]) :
            ct \in {p \in Qubits \X Qubits : p[1] # p[2]}}

\* Two malformed operations: an opcode that does not fit its shape, and an
\* opcode send does not know.
BadOps == {OpArgs("Empty", "X", -1, -1), OpArgs("Q", "T", 0, -1)}

\* The operations the batches of SpecBatch are made of.
BatchOps ==
  {OpArgs("Empty", "INIT", -1, -1), OpArgs("Q", "X", 1, -1),
   OpArgs("Q", "H", 0, -1), OpArgs("QQ", "CX", 0, 1),
   OpArgs("QS", "MEAS", 0, 1), OpArgs("QS", "MEAS", 1, 0)} \cup BadOps

\* The sequences of at most len elements of S.
RECURSIVE SeqsUpTo(_, _)
SeqsUpTo(S, len) ==
  IF len = 0 THEN {<<>>}
  ELSE LET shorter == SeqsUpTo(S, len - 1)
       IN  shorter \cup {Append(sq, e) : sq \in shorter, e \in S}

Batches == SeqsUpTo(BatchOps, MaxBatch)

\* The empty batch and the batches of one operation.
Singles == SeqsUpTo(BatchOps, 1)

\* The words the RNG holds at the positions from pos on that a batch can
\* reach: it draws at most one word for each of its MEAS operations.
Streams(pos, ops) ==
  LET meas == {k \in 1..Len(ops) : ops[k].id = "MEAS"}
  IN  [pos..(pos + Cardinality(meas) - 1) -> Words]

Send(ops, ws) ==
  \E r \in {send(GK, ops, ws)} :
    /\ ~aborted
    /\ r.gk.rng <= MaxDraws
    /\ Apply(r.gk)
    /\ aborted' = r.panic
    /\ UNCHANGED <<buf, histvars, twinvars, bitvars, fakevars, setvars>>

SendReceive(ops, ws) ==
  \E r \in {send_receive(GK, buf, ops, ws)} :
    /\ ~aborted
    /\ r.gk.rng <= MaxDraws
    /\ Apply(r.gk)
    /\ buf' = r.buf
    /\ aborted' = r.panic
    /\ UNCHANGED <<histvars, twinvars, bitvars, fakevars, setvars>>

NextBatch ==
  \/ \E ops \in Batches : \E ws \in Streams(rng, ops) : Send(ops, ws)
  \/ \E ops \in Batches : \E ws \in Streams(rng, ops) : SendReceive(ops, ws)

SpecBatch == Init /\ [][NextBatch]_vars

\* ------------------------------------------------------- two instances
\* Two simulators constructed with the same n and the same seed.  The first
\* is sent a batch; the twin is sent the same batch later.
\* The words from position MaxDraws on are read only by a step that MaxDraws
\* rules out, so they are the same in every stream.
SeedLen == MaxDraws + MaxBatch

InitTwin ==
  \E sd \in {f \in [0..(SeedLen - 1) -> Words] :
               \A k \in MaxDraws..(SeedLen - 1) : f[k] = 1} :
    InitAll(NQ, ScriptOff(NQ), sd)

\* Mutant: the twin's measurements read the RNG one position late.
twin_send_late(gk, ops, ws) ==
  send(gk, ops, [k \in DOMAIN ws |-> ws[(k + 1) % SeedLen]])

\* send on the twin, whose RNG holds the stream ws.
twin_send(gk, ops, ws) == send(gk, ops, ws)

SendFirst(ops) ==
  LET r == send(GK, ops, seed)
  IN  /\ ~aborted
      /\ lag = <<>>
      /\ r.gk.rng <= MaxDraws
      /\ Apply(r.gk)
      /\ aborted' = r.panic
      /\ lag' = Append(lag, ops)
      /\ UNCHANGED <<buf, histvars, twin, seed, bitvars, fakevars, setvars>>

SendTwin ==
  /\ lag # <<>>
  /\ twin' = twin_send(twin, Head(lag), seed).gk
  /\ lag' = Tail(lag)
  /\ UNCHANGED <<simvars, buf, aborted, histvars, seed, bitvars, fakevars, setvars>>

NextTwin ==
  \/ \E ops \in Batches : SendFirst(ops)
  \/ SendTwin

SpecTwin == InitTwin /\ [][NextTwin]_vars

\* ------------------------------------------------- indices out of range
\* Indices given to SpecBits: two in range for NQ qubits; two at or past the
\* length but inside the last block; one past the last block.
BitIndices == {0, 1, NQ, BLOCK_SIZE - 1, BLOCK_SIZE}

BlockStep(r) ==
  /\ ~wabort
  /\ wsim' = r.w
  /\ wabort' = r.panic
  /\ UNCHANGED <<simvars, buf, aborted, histvars, twinvars, fakevars, setvars>>

BlockX(q) == BlockStep(block_x(wsim, q))

BlockZ(q) == BlockStep(block_z(wsim, q))

BlockH(q) == BlockStep(block_h(wsim, q))

BlockCX(c, t) == c # t /\ BlockStep(block_cx(wsim, c, t))

NextBits ==
  \/ \E q \in BitIndices : BlockX(q)
  \/ \E q \in BitIndices : BlockZ(q)
  \/ \E q \in BitIndices : BlockH(q)
  \/ \E c \in BitIndices, t \in BitIndices : BlockCX(c, t)

SpecBits == Init /\ [][NextBits]_vars

\* --------------------------------------------------------- the test RNG
\* Longest sequence given to RepeatSeqFakeRng::new, and most words requested.
MaxSeq == 3
MaxReq == 7

\* The u64 words of the sequences: both halves matter.
Words64 == {[hi |-> a, lo |-> b] : a \in {0, 1}, b \in {1, 2}}

InitFake ==
  /\ InitBase(NQ, ScriptOff(NQ), <<>>)
  /\ \E seq \in SeqsUpTo(Words64, MaxSeq) :
       fake = [state |-> "args", cnt |-> 0, seq |-> seq]
  /\ freq = 0
  /\ fres = <<>>

FakeFrame ==
  UNCHANGED <<simvars, buf, aborted, histvars, twinvars, bitvars, setvars>>

FakeNew ==
  LET r == fake_new(fake.seq)
  IN  /\ fake.state = "args"
      /\ fake' = [state |-> IF r.panic THEN "aborted" ELSE "built",
                  cnt |-> r.rng.cnt, seq |-> r.rng.seq]
      /\ UNCHANGED <<freq, fres>>
      /\ FakeFrame

FakeNextU64 ==
  LET r == fake_next_u64([cnt |-> fake.cnt, seq |-> fake.seq])
  IN  /\ fake.state = "built"
      /\ freq < MaxReq
      /\ fake' = [fake EXCEPT !.cnt = r.rng.cnt]
      /\ freq' = freq + 1
      /\ fres' = <<"u64", r.val>>
      /\ FakeFrame

FakeNextU32 ==
  LET r == fake_next_u32([cnt |-> fake.cnt, seq |-> fake.seq])
  IN  /\ fake.state = "built"
      /\ freq < MaxReq
      /\ fake' = [fake EXCEPT !.cnt = r.rng.cnt]
      /\ freq' = freq + 1
      /\ fres' = <<"u32", r.val>>
      /\ FakeFrame

NextFake ==
  \/ FakeNew
  \/ FakeNextU64
  \/ FakeNextU32

SpecFake == InitFake /\ [][NextFake]_vars

\* --------------------------------------------------------- bit vectors
\* The lengths of the BitArrays a caller makes: empty, inside one word, one
\* word exactly, and beyond one word.
Lens == {0, 1, 3, BLOCK_SIZE, BLOCK_SIZE + 1, 2 * BLOCK_SIZE}

\* The indices below len the caller uses: the ends of the vector and of its
\* first word.
IndicesBelow(len) == {i \in {0, BLOCK_SIZE - 1, BLOCK_SIZE, len - 1} :
                        0 <= i /\ i < len}

SetFrame ==
  UNCHANGED <<simvars, buf, aborted, histvars, twinvars, bitvars, fakevars>>

\* arrs[i] becomes r.a, unless the operation panicked.
SetStep(i, r) ==
  /\ ~bpanic
  /\ tind.state = "none"
  /\ arrs' = [arrs EXCEPT ![i] = r.a]
  /\ bpanic' = r.panic
  /\ UNCHANGED <<tind, tout>>
  /\ SetFrame

SetZeros(i, len) == SetStep(i, [a |-> block_zeros(len), panic |-> FALSE])

SetOnes(i, len) == SetStep(i, [a |-> block_ones(len), panic |-> FALSE])

SetReset(i) == SetStep(i, [a |-> block_reset(arrs[i]), panic |-> FALSE])

SetNegate(i, index) == SetStep(i, block_negate(arrs[i], index))

SetSetBool(i, index, val) == SetStep(i, block_set_bool(arrs[i], index, val))

SetXorAll(i, j) == SetStep(i, block_xor_all(arrs[i], arrs[j]))

NextSet ==
  \/ \E i \in {1, 2}, len \in Lens : SetZeros(i, len)
  \/ \E i \in {1, 2}, len \in Lens : SetOnes(i, len)
  \/ \E i \in {1, 2} : SetReset(i)
  \/ \E i \in {1, 2} : \E index \in IndicesBelow(arrs[i].len) :
       SetNegate(i, index)
  \/ \E i \in {1, 2} : \E index \in IndicesBelow(arrs[i].len) :
       \E val \in BOOLEAN : SetSetBool(i, index, val)
  \/ \E i \in {1, 2} : SetXorAll(i, 3 - i)

SpecSet == Init /\ [][NextSet]_vars

\* A caller builds one BitArray, then iterates over its set indices; the
\* iterator borrows the BitArray, which is not written while it lives.
TrueIndices ==
  /\ ~bpanic
  /\ tind.state = "none"
  /\ tind' = [state |-> "live"] @@ tindices_new(arrs[1])
  /\ UNCHANGED <<arrs, bpanic, tout>>
  /\ SetFrame

\* One call of next, in a build with or without overflow checks.
IndicesNext(checks) ==
  \E r \in {tindices_next([current_blk |-> tind.current_blk,
                           current_bit |-> tind.current_bit,
                           buf |-> tind.buf], arrs[1], checks)} :
    /\ ~bpanic
    /\ tind.state = "live"
    /\ bpanic' = r.panic
    /\ tind' = [state |-> IF ~r.panic /\ r.item = -1 THEN "done" ELSE "live"]
                 @@ r.it
    /\ tout' = IF r.item # -1 THEN Append(tout, r.item) ELSE tout
    /\ UNCHANGED arrs
    /\ SetFrame

NextIndices ==
  \/ \E len \in Lens : SetZeros(1, len)
  \/ \E len \in Lens : SetOnes(1, len)
  \/ \E index \in IndicesBelow(arrs[1].len) : SetNegate(1, index)
  \/ TrueIndices
  \/ \E checks \in BOOLEAN : IndicesNext(checks)

SpecIndices == Init /\ [][NextIndices]_vars

\* ---------------------------------------------------------------- claims
\* C1: from every state legal circuits reach, a measurement of any qubit takes
\* the deterministic branch exactly when the reference outcome is forced, and
\* a deterministic outcome equals the reference outcome.
C1_AgreesWithReference ==
  \A q \in Qubits, w \in Words :
    LET m == measure(GK, q, w)
        r == ag_measure(ref, q, LowBit(w))
    IN  /\ m.det <=> r.forced
        /\ m.det => m.bit = r.bit

\* C2: after INIT and X, CX (c # t) and MEAS only, a measurement of q into any
\* slot takes the deterministic branch, draws no word and writes the classical
\* bit of q.
C2_ClassicalOutcome ==
  classical =>
    \A q \in Qubits, ch \in Slots, w \in Words :
      LET m == measure_to(GK, q, ch, w)
      IN  /\ m.det
          /\ ~m.panic
          /\ m.gk.measured[ch] = cbits[q]
          /\ m.gk.rng = rng

\* A classical state with a bit set, a 1 read into some slot, and a row that
\* CX has spread over two columns.
C2_Witness ==
  /\ classical
  /\ \E q \in Qubits : cbits[q]
  /\ \E ch \in Slots : measured[ch]
  /\ \E k \in Qubits : Cardinality({j \in Qubits : zs[k][j]}) >= 2

\* C3: after a Bell/GHZ circuit, every slot written by a measurement of a
\* qubit of an entangled group holds the low bit of the word that the first
\* measurement of that group drew.
C3_GroupAgrees ==
  script.pc # "off" =>
    \A ch \in Slots :
      script.slotgrp[ch] # 0 =>
        /\ script.first[script.slotgrp[ch]] \in {"one", "zero"}
        /\ measured[ch] = (script.first[script.slotgrp[ch]] = "one")

\* A GHZ group of three qubits, all measured, into three slots that hold 1.
C3_Witness ==
  /\ script.pc = "meas"
  /\ \E g \in 1..n_qubits(GK) :
       /\ script.first[g] = "one"
       /\ Cardinality({q \in Qubits : script.grp[q] = g}) >= 3
       /\ Cardinality({ch \in Slots : script.slotgrp[ch] = g /\ measured[ch]}) >= 3

\* The tableau part of a simulator value.
Tableau(g) == <<g.xs, g.zs, g.sgns>>

\* C4: in every reachable state, for all distinct c and t, CX(c, t) applied
\* twice gives back the X matrix, the Z matrix and the sign vector.
C4_CXTwiceRestores ==
  \A c \in Qubits, t \in Qubits :
    c # t => Tableau(cx(cx(GK, c, t), c, t)) = Tableau(GK)

\* C5: in every reachable state, for every qubit q, H H, X X, Z Z, S S S S,
\* S then S-dagger, and S-dagger then S give back the X matrix, the Z matrix
\* and the sign vector.
C5_GateIdentities ==
  \A q \in Qubits :
    /\ Tableau(h(h(GK, q), q)) = Tableau(GK)
    /\ Tableau(x(x(GK, q), q)) = Tableau(GK)
    /\ Tableau(z(z(GK, q), q)) = Tableau(GK)
    /\ Tableau(s(s(s(s(GK, q), q), q), q)) = Tableau(GK)
    /\ Tableau(sdg(s(GK, q), q)) = Tableau(GK)
    /\ Tableau(s(sdg(GK, q), q)) = Tableau(GK)

\* A state where each of the gates changes something: some row has x and z
\* set at one column and sign 1, after a random measurement.
C5_Witness ==
  /\ nrand > 0
  /\ \E k \in Qubits, q \in Qubits : xs[k][q] /\ zs[k][q] /\ sgns[k]
  /\ \E q \in Qubits :
       /\ Tableau(h(GK, q)) # Tableau(GK)
       /\ Tableau(x(GK, q)) # Tableau(GK)
       /\ Tableau(z(GK, q)) # Tableau(GK)
       /\ Tableau(s(GK, q)) # Tableau(GK)
       /\ Tableau(s(s(GK, q), q)) # Tableau(GK)

\* The rows of S sum to zero over GF(2).
SumsToZero(S) ==
  \A j \in Qubits :
    /\ Cardinality({k \in S : xs[k][j]}) % 2 = 0
    /\ Cardinality({k \in S : zs[k][j]}) % 2 = 0

Independent == \A S \in (SUBSET Qubits) \ {{}} : ~SumsToZero(S)

Commute(a, b) ==
  Cardinality({j \in Qubits :
                 (xs[a][j] /\ zs[b][j]) # (zs[a][j] /\ xs[b][j])}) % 2 = 0

\* C6: in every reachable state the n rows (x-row | z-row) are linearly
\* independent over GF(2) and every two rows commute.
C6_IndependentCommuting ==
  /\ Independent
  /\ \A a \in Qubits, b \in Qubits : Commute(a, b)

\* After two random measurements: every row has an X or Y component, two rows
\* overlap in a column where both have x or z set.
C6_Witness ==
  /\ nrand = MaxDraws
  /\ \A k \in Qubits : \E j \in Qubits : xs[k][j]
  /\ \E a \in Qubits, b \in Qubits, j \in Qubits :
       a # b /\ xs[a][j] /\ zs[b][j]

\* C7 as stated: no operation aborts, CX with c = t included.
C7_NeverAborts == ~aborted

\* C7: with CX applied to distinct qubits only, no operation aborts; the
\* deterministic branch always ends with exactly one live row.
C7_NoAbortWhenLegal == legal => ~aborted

\* A deterministic measurement has read 1 in a state that non-classical gates
\* produced, and no measurement was random.
C7_Witness ==
  /\ legal
  /\ ~aborted
  /\ ~classical
  /\ nrand = 0
  /\ \E ch \in Slots : measured[ch]
  /\ \E k \in Qubits : Cardinality({j \in Qubits : zs[k][j]}) >= 2

\* C8: the RNG position equals the number of random-branch measurements; a
\* measurement of q is random exactly when some row has x set at column q,
\* then draws exactly one word and writes its low bit; a deterministic
\* measurement, a gate and INIT draw nothing.
C8_RngOncePerRandom ==
  /\ rng = nrand
  /\ \A q \in Qubits :
       /\ initialize(GK).rng = rng
       /\ x(GK, q).rng = rng /\ y(GK, q).rng = rng /\ z(GK, q).rng = rng
       /\ h(GK, q).rng = rng /\ s(GK, q).rng = rng /\ sdg(GK, q).rng = rng
       /\ \A t \in Qubits : cx(GK, q, t).rng = rng
       /\ \A ch \in Slots, w \in Words :
            LET m == measure_to(GK, q, ch, w)
            IN  IF \E k \in Qubits : xs[k][q]
                THEN /\ ~m.det
                     /\ m.gk.rng = rng + 1
                     /\ m.gk.measured[ch] = LowBit(w)
                ELSE /\ m.det
                     /\ m.gk.rng = rng

\* All the words were drawn, a 1 among them was written and received.
C8_Witness ==
  /\ nrand = MaxDraws
  /\ rng = MaxDraws
  /\ \E ch \in Slots : measured[ch]
  /\ buf = measured

\* One step that changes slot sl of the buffer is INIT or a MEAS into sl.
SlotStep(sl) ==
  \/ /\ measured' = reset(measured)
     /\ Tableau(GK)' = Tableau(initialize(GK))
  \/ \E q \in Qubits, w \in Words :
       LET m == measure(GK, q, w)
       IN  /\ measured' = [measured EXCEPT ![sl] = m.bit]
           /\ Tableau(GK)' = Tableau(m.gk)

BufferFrame ==
  \A q \in Qubits :
    /\ x(GK, q).measured = measured /\ y(GK, q).measured = measured
    /\ z(GK, q).measured = measured /\ h(GK, q).measured = measured
    /\ s(GK, q).measured = measured /\ sdg(GK, q).measured = measured
    /\ \A t \in Qubits : cx(GK, q, t).measured = measured
    /\ \A ch \in Slots, w \in Words :
         measure_to(GK, q, ch, w).gk.measured =
           [measured EXCEPT ![ch] = measure(GK, q, w).bit]

\* C9: MEAS(q, s) sets slot s to the outcome and leaves every other slot; no
\* gate changes the buffer; and in every step (receive included) a slot
\* changes only by INIT or by a MEAS into that slot.
C9_BufferFrame ==
  /\ []BufferFrame
  /\ [][\A sl \in Slots : measured'[sl] # measured[sl] => SlotStep(sl)]_vars

\* After a receive, a slot that held 1 was overwritten with 0 while another
\* slot still holds the 1 that was received.
C9_Witness ==
  /\ DOMAIN buf = Slots
  /\ nrand > 0
  /\ \E a \in Slots, b \in Slots :
       a # b /\ buf[a] /\ ~measured[a] /\ buf[b] /\ measured[b]

\* C10: from every reachable state, INIT gives exactly the simulator that
\* construction gives (X zero, Z the identity, signs zero, buffer zero) with
\* the RNG where it was.
C10_InitFresh ==
  LET g == initialize(GK)
  IN  /\ g = from_rng(n_qubits(GK), rng)
      /\ \A k \in Qubits, j \in Qubits :
           ~g.xs[k][j] /\ (g.zs[k][j] <=> k = j)
      /\ \A k \in Qubits : ~g.sgns[k] /\ ~g.measured[k]
      /\ g.rng = rng

\* A state with every part dirty: x bits, off-diagonal z bits, a sign, a
\* measured 1, and words drawn.
C10_Witness ==
  /\ rng > 0
  /\ \E k \in Qubits, j \in Qubits : xs[k][j]
  /\ \E k \in Qubits, j \in Qubits : k # j /\ zs[k][j]
  /\ \E k \in Qubits : ~zs[k][k]
  /\ \E k \in Qubits : sgns[k]
  /\ \E ch \in Slots : measured[ch]

\* C11: from every state reached by sending batches of up to MaxBatch
\* operations, for all batches bA and bB of at most one operation and every
\* word stream, send(bA ++ bB) leaves the same tableau, buffer and RNG position (and the same
\* abort) as send(bA) followed by send(bB); and send_receive(ops, buf) gives the
\* simulator and the buffer of send(ops) followed by receive(buf).
C11_BatchesCompose ==
  /\ \A bA \in Singles, bB \in Singles :
       \A ws \in Streams(rng, bA \o bB) :
         LET first == send(GK, bA, ws)
         IN  send(GK, bA \o bB, ws) =
               IF first.panic THEN first ELSE send(first.gk, bB, ws)
  /\ \A ops \in Batches :
       \A ws \in Streams(rng, ops) :
         LET r  == send(GK, ops, ws)
             sr == send_receive(GK, buf, ops, ws)
         IN  /\ sr.gk = r.gk
             /\ sr.panic = r.panic
             /\ ~r.panic => sr.buf = receive(r.gk, buf)

\* Both random words were drawn, a 1 was measured and received, and the
\* tableau is entangled.
C11_Witness ==
  /\ rng = MaxDraws
  /\ \E ch \in Slots : measured[ch]
  /\ buf = measured
  /\ \E k \in Qubits : Cardinality({j \in Qubits : xs[k][j]}) >= 2

BlockArrays ==
  {wsim.sgns, wsim.measured}
    \cup {wsim.xs[i] : i \in DOMAIN wsim.xs}
    \cup {wsim.zs[i] : i \in DOMAIN wsim.zs}

\* C13: every get, set or toggle of a bit vector with index >= len panics and
\* leaves the vector as it was, and every X, Z, H or CX with a qubit argument
\* >= n panics.
C13_OutOfRangeAborts ==
  /\ \A a \in BlockArrays, index \in BitIndices :
       index >= a.len =>
         /\ block_get_bool(a, index).panic
         /\ block_negate(a, index).panic
         /\ \A val \in BOOLEAN : block_set_bool(a, index, val).panic
  /\ \A q \in BitIndices :
       q >= Cardinality(DOMAIN wsim.xs) =>
         /\ block_x(wsim, q).panic
         /\ block_z(wsim, q).panic
         /\ block_h(wsim, q).panic
         /\ \A c \in DOMAIN wsim.xs :
              block_cx(wsim, c, q).panic /\ block_cx(wsim, q, c).panic

\* The batches of at most one well-formed operation.
GoodSingles == SeqsUpTo(BatchOps \ BadOps, 1)

\* C14: a batch whose first malformed operation is at index k makes send
\* abort there: the simulator is as the operations before k leave it, and
\* neither the malformed operation nor a later one changes the tableau, the
\* buffer or the RNG.
C14_AbortsAtUnknown ==
  \A before \in GoodSingles, bad \in BadOps, after \in Singles :
    \A ws \in Streams(rng, before \o after) :
      LET r == send(GK, before \o <<bad>> \o after, ws)
          p == send(GK, before, ws)
      IN  /\ ~p.panic
          /\ r.panic
          /\ r.gk = p.gk

\* send has aborted with a 1 measured, both words drawn and an entangled
\* tableau.
C14_Witness ==
  /\ aborted
  /\ rng = MaxDraws
  /\ \E ch \in Slots : measured[ch]
  /\ \E k \in Qubits : Cardinality({j \in Qubits : xs[k][j]}) >= 2

\* C15: new aborts exactly on the empty sequence; the k-th request (k from 0)
\* returns seq[k mod len], whole for next_u64 and its low half for next_u32;
\* and each request moves the position by one, whichever of the two it is.
C15_FakeCycles ==
  /\ (fake.state = "aborted") => Len(fake.seq) = 0
  /\ (fake.state = "built") =>
       LET len  == Len(fake.seq)
           r    == [cnt |-> fake.cnt, seq |-> fake.seq]
           word(k) == fake.seq[(k % len) + 1]
       IN  /\ len > 0
           /\ freq > 0 =>
                fres = IF fres[1] = "u64" THEN <<"u64", word(freq - 1)>>
                       ELSE <<"u32", word(freq - 1).lo>>
           /\ fake_next_u64(r).val = word(freq)
           /\ fake_next_u32(r).val = word(freq).lo
           /\ fake_next_u32(r).rng = fake_next_u64(r).rng
           /\ fake_next_u64(fake_next_u32(r).rng).val = word(freq + 1)

\* The sequence of three different words has been cycled through twice and
\* the last request was a next_u32 of a word whose high half is not zero.
C15_Witness ==
  /\ fake.state = "built"
  /\ Len(fake.seq) = MaxSeq
  /\ Cardinality({fake.seq[i] : i \in 1..MaxSeq}) = MaxSeq
  /\ freq = MaxReq
  /\ fres[1] = "u32"
  /\ fake.seq[((freq - 1) % MaxSeq) + 1].hi # 0

\* The rows with the x bit of column q, as measure collects them.
RowsOn(g, q) == {k \in DOMAIN g.xs : get_bool(g.xs[k], q)}

\* C16: in a random-branch measurement of q every row k of N other than the
\* pivot p = min(N) ends with x_k XOR x_p, z_k XOR z_p and sign r_k XOR r_p.
C16_RandomRowAddition ==
  \A q \in Qubits : \A w \in Words :
    LET N == RowsOn(GK, q)
        p == Min(N)
        m == measure(GK, q, w)
    IN  N # {} =>
          \A k \in N \ {p} :
            /\ m.gk.xs[k] = xor_all(xs[k], xs[p])
            /\ m.gk.zs[k] = xor_all(zs[k], zs[p])
            /\ m.gk.sgns[k] = (sgns[k] # sgns[p])

\* C17: after a random-branch measurement of q that drew a word with low bit
\* b, the pivot row p = min(N) has no x bit, its only z bit is at column q and
\* its sign is b; the rows outside N are as before; and no row has its x bit
\* at column q set.
C17_RandomPivotRow ==
  \A q \in Qubits : \A w \in Words :
    LET N == RowsOn(GK, q)
        p == Min(N)
        m == measure(GK, q, w)
    IN  N # {} =>
          /\ ~m.det
          /\ m.bit = LowBit(w)
          /\ \A j \in Qubits : ~m.gk.xs[p][j]
          /\ \A j \in Qubits : m.gk.zs[p][j] = (j = q)
          /\ m.gk.sgns[p] = LowBit(w)
          /\ \A k \in Qubits \ N :
               /\ m.gk.xs[k] = xs[k]
               /\ m.gk.zs[k] = zs[k]
               /\ m.gk.sgns[k] = sgns[k]
          /\ RowsOn(m.gk, q) = {}

\* A second random measurement is about to happen in a state where the pivot
\* has x and z bits besides column q and a sign of 1, with a row outside N.
C17_Witness ==
  /\ nrand = 1
  /\ rng = 1
  /\ \E q \in Qubits :
       LET N == RowsOn(GK, q)
       IN  /\ N # {}
           /\ Qubits \ N # {}
           /\ sgns[Min(N)]
           /\ \E j \in Qubits \ {q} : xs[Min(N)][j]
           /\ \E j \in Qubits : zs[Min(N)][j]

\* Every row has the x bit of the measured column, so the random branch adds
\* the pivot into another row; one measurement has been random already and a
\* 1 was read.
C17_WitnessAdds ==
  /\ nrand = 1
  /\ \E ch \in Slots : measured[ch]
  /\ \E q \in Qubits : RowsOn(GK, q) = Qubits

\* C18: in a deterministic-branch measurement of q, reached by operations on
\* qubits below n with CX on distinct qubits only, the two passes leave exactly
\* one live row; that row has no x bit and its only z bit is at column q; and
\* the outcome is the sign of that row.
C18_DeterministicRow ==
  legal =>
    \A q \in Qubits : \A w \in Words :
      RowsOn(GK, q) = {} =>
        LET st == det_passes(GK, q)
            m  == measure(GK, q, w)
        IN  /\ Len(st.indices) = 1
            /\ \A j \in DOMAIN st.gk.xs : ~st.gk.xs[st.indices[1]][j]
            /\ \A j \in DOMAIN st.gk.zs : st.gk.zs[st.indices[1]][j] = (j = q)
            /\ m.det
            /\ ~m.panic
            /\ m.gk = st.gk
            /\ m.bit = st.gk.sgns[st.indices[1]]

\* A deterministic measurement is about to read 1 in a state that a random
\* measurement produced, where both passes have work to do: the rows other
\* than the last hold an x bit, or a z bit outside the measured column.
C18_Witness ==
  /\ legal
  /\ nrand >= 1
  /\ \E q \in Qubits :
       /\ RowsOn(GK, q) = {}
       /\ \E k \in DOMAIN xs : \E j \in DOMAIN xs : xs[k][j]
       /\ \E k \in DOMAIN zs : \E j \in DOMAIN zs \ {q} : zs[k][j] /\ zs[k][q]
       /\ measure(GK, q, 1).bit

\* The rows named by a list of live indices.
Live(indices) == {indices[j] : j \in 1..Len(indices)}

\* The turns of the two passes that pinned a pivot.
Pivots(log) == {i \in 1..Len(log) : log[i].pivot # -1}

\* C19: in every row addition of a measurement the pivot is not among the
\* rows written and is the same row after its pass as before; in the
\* deterministic branch a pivot, once pinned, is in no later list of live rows,
\* is no later pivot or destination, and is the same row when the passes end.
C19_PivotUntouched ==
  \A q \in Qubits :
    LET N == RowsOn(GK, q)
    IN  IF N = {}
        THEN LET st  == det_passes(GK, q)
                 log == st.log
             IN  \A i \in Pivots(log) :
                   /\ log[i].pivot \notin log[i].dests
                   /\ log[i].dests \subseteq Live(log[i].live)
                   /\ Cardinality(Live(log[i].live)) = Len(log[i].live)
                   /\ log[i].after = log[i].before
                   /\ \A j \in (i + 1)..Len(log) :
                        /\ log[i].pivot \notin Live(log[j].live)
                        /\ log[i].pivot # log[j].pivot
                        /\ log[i].pivot \notin log[j].dests
                   /\ log[i].pivot \notin Live(st.indices)
                   /\ row_of(st.gk, log[i].pivot) = log[i].after
        ELSE LET p == Min(N)
             IN  /\ p \notin N \ {p}
                 /\ row_of(mult_rest(GK, N \ {p}, p), p) = row_of(GK, p)

\* A deterministic measurement is about to pin two pivots, the first of them
\* added into another row, after a random measurement.
C19_Witness ==
  /\ nrand >= 1
  /\ \E q \in Qubits :
       /\ RowsOn(GK, q) = {}
       /\ LET log == det_passes(GK, q).log
          IN  /\ Cardinality(Pivots(log)) >= 2
              /\ \E i \in Pivots(log) : log[i].dests # {}

\* A random measurement is about to add its pivot, whose sign is 1, into the
\* other row.
C19_WitnessRandom ==
  \E q \in Qubits :
    /\ RowsOn(GK, q) = Qubits
    /\ sgns[0]

\* C20: CX(c, t) with c # t changes each row k by itself: x[k][t] is toggled
\* iff x[k][c]; z[k][c] is toggled iff z[k][t]; the sign is toggled iff x[k][c]
\* and z[k][c], both as they were before the gate; nothing else changes.
C20_CXRowRule ==
  \A c \in Qubits : \A t \in Qubits \ {c} :
    LET g == cx(GK, c, t)
    IN  /\ \A k \in Qubits :
             /\ \A j \in Qubits :
                  /\ g.xs[k][j] = (xs[k][j] # (j = t /\ xs[k][c]))
                  /\ g.zs[k][j] = (zs[k][j] # (j = c /\ zs[k][t]))
             /\ g.sgns[k] = (sgns[k] # (xs[k][c] /\ zs[k][c]))
             /\ LET r == cx_row(xs[k], zs[k], sgns[k], c, t)
                IN  row_of(g, k) = <<r.xr, r.zr, r.sg>>
        /\ g.measured = measured
        /\ g.rng = rng

\* Some row has x and z set at both the control and the target, another row
\* has no x at the control, and a sign is 1.
C20_Witness ==
  /\ legal
  /\ \E c \in Qubits : \E t \in Qubits \ {c} :
       /\ \E k \in Qubits : xs[k][c] /\ zs[k][c] /\ xs[k][t] /\ zs[k][t]
       /\ \E k \in Qubits : ~xs[k][c]
  /\ \E k \in Qubits : sgns[k]

\* C21: in every reachable state, for every qubit q, H Z H gives the same X
\* matrix, Z matrix and sign vector as X; S S and S-dagger S-dagger the same
\* as Z; S-dagger the same as S S S; and Y the same as X followed by Z.
C21_GateEquivalences ==
  \A q \in Qubits :
    /\ Tableau(h(z(h(GK, q), q), q)) = Tableau(x(GK, q))
    /\ Tableau(s(s(GK, q), q)) = Tableau(z(GK, q))
    /\ Tableau(sdg(sdg(GK, q), q)) = Tableau(z(GK, q))
    /\ Tableau(sdg(GK, q)) = Tableau(s(s(s(GK, q), q), q))
    /\ Tableau(y(GK, q)) = Tableau(z(x(GK, q), q))

\* At one column some row has x and z both set, another has only one of
\* them, and X, Y, Z and S-dagger each give a different tableau there; a
\* random measurement has happened.
C21_Witness ==
  /\ nrand > 0
  /\ \E q \in Qubits :
       /\ \E k \in Qubits : xs[k][q] /\ zs[k][q]
       /\ \E k \in Qubits : xs[k][q] # zs[k][q]
       /\ Cardinality({Tableau(GK), Tableau(x(GK, q)), Tableau(y(GK, q)),
                       Tableau(z(GK, q)), Tableau(sdg(GK, q))}) = 5

\* The positions of the bits set in the words of a.
BitsOf(a) ==
  UNION {{b * BLOCK_SIZE + p : p \in a.inner[b]} : b \in DOMAIN a.inner}

\* C22: after any sequence of zeros, ones, reset, set_bool, negate and xor_all
\* between equal lengths, with indices below the length, no word of a
\* BitArray has a bit set at a position >= len; and ones(len) has exactly the
\* bits 0..len-1 set, in cap_from_len(len) words.
C22_TailStaysZero ==
  /\ \A i \in {1, 2} :
       /\ \A p \in BitsOf(arrs[i]) : p < arrs[i].len
       /\ DOMAIN arrs[i].inner = 0..(cap_from_len(arrs[i].len) - 1)
       /\ \A j \in {1, 2} :
            arrs[i].len = arrs[j].len =>
              LET r == block_xor_all(arrs[i], arrs[j])
              IN  ~r.panic /\ \A p \in BitsOf(r.a) : p < r.a.len
  /\ \A len \in Lens :
       /\ BitsOf(block_ones(len)) = 0..(len - 1)
       /\ DOMAIN block_ones(len).inner = 0..(cap_from_len(len) - 1)

\* Two vectors of BLOCK_SIZE + 1 bits, the first with its last bit set and a
\* bit of its first word clear, the second with every bit set but one.
C22_Witness ==
  /\ ~bpanic
  /\ arrs[1].len = BLOCK_SIZE + 1
  /\ arrs[2].len = BLOCK_SIZE + 1
  /\ BLOCK_SIZE \in BitsOf(arrs[1])
  /\ 0 \notin BitsOf(arrs[1])
  /\ Cardinality(BitsOf(arrs[1])) > 2
  /\ Cardinality(BitsOf(arrs[2])) = BLOCK_SIZE

\* tout lists, in ascending order and without gaps, the lowest set indices of
\* arrs[1]; all of them once the iterator has returned None.
YieldedInOrder ==
  LET S == BitsOf(arrs[1])
  IN  /\ \A k \in 1..Len(tout) :
           /\ tout[k] \in S
           /\ tout[k] < arrs[1].len
           /\ Cardinality({i \in S : i < tout[k]}) = k - 1
      /\ tind.state = "done" => Len(tout) = Cardinality(S)

\* C23: for a BitArray of any length, the empty one included, iterating over
\* true_indices never panics, yields the set indices below the length in
\* ascending order, each once, and returns None after the last.
C23_IndicesOfAnyLength == ~bpanic /\ YieldedInOrder

\* The same for the BitArrays that have at least one word.
C23_IndicesOfOneWordOrMore ==
  arrs[1].len > 0 => (~bpanic /\ YieldedInOrder)

\* The iterator has gone through a BitArray of two words and has yielded
\* indices of both.
C23_WitnessTwoWords ==
  /\ tind.state = "done"
  /\ arrs[1].len = 2 * BLOCK_SIZE
  /\ Len(tout) >= 3
  /\ Len(tout) < BLOCK_SIZE
  /\ tout[1] < BLOCK_SIZE
  /\ tout[Len(tout)] = 2 * BLOCK_SIZE - 1

\* C24: in every state reached with CX on distinct qubits only, a measurement
\* of q followed at once by a second measurement of q: the second takes the
\* deterministic branch, does not panic, leaves the RNG where the first left
\* it and returns the bit the first returned, whichever branch the first took
\* and whatever words the RNG holds.
C24_MeasureTwice ==
  legal =>
    \A q \in Qubits : \A w1 \in Words : \A w2 \in Words :
      LET m1 == measure(GK, q, w1)
          m2 == measure(m1.gk, q, w2)
      IN  /\ ~m1.panic
          /\ m2.det
          /\ ~m2.panic
          /\ m2.gk.rng = m1.gk.rng
          /\ m2.bit = m1.bit

\* After a random measurement: one qubit would be measured at random, with
\* the pivot added into another row, and another deterministically, reading 1
\* after a pivot step that writes a row.
C24_Witness ==
  /\ legal
  /\ nrand >= 1
  /\ \E q \in Qubits : Cardinality(RowsOn(GK, q)) >= 2
  /\ \E q \in Qubits :
       /\ RowsOn(GK, q) = {}
       /\ measure(GK, q, 1).bit
       /\ \E i \in Pivots(det_passes(GK, q).log) :
            det_passes(GK, q).log[i].dests # {}

\* The rows of the matrix after differ from those of now at most in the
\* columns of cols.
OnlyColumns(now, after, cols) ==
  /\ DOMAIN after = DOMAIN now
  /\ \A k \in DOMAIN now :
       /\ DOMAIN after[k] = DOMAIN now[k]
       /\ \A j \in DOMAIN now[k] \ cols : after[k][j] = now[k][j]

\* The measurement buffer, the RNG position and the number of sign bits of g
\* are those of the simulator.
RestKept(g) ==
  /\ g.measured = measured
  /\ g.rng = rng
  /\ DOMAIN g.sgns = DOMAIN sgns

\* C25: in every reachable state X, Y and Z leave the X and Z matrices as they
\* are; H(q) changes at most column q of both; S(q) and S-dagger(q) at most
\* column q of the Z matrix; CX(c, t) at most column t of the X matrix and
\* column c of the Z matrix; and no gate changes the measurement buffer or the
\* RNG position.
C25_GateFrames ==
  \A q \in Qubits :
    /\ \A g \in {x(GK, q), y(GK, q), z(GK, q)} :
         g.xs = xs /\ g.zs = zs /\ RestKept(g)
    /\ LET g == h(GK, q)
       IN  OnlyColumns(xs, g.xs, {q}) /\ OnlyColumns(zs, g.zs, {q})
             /\ RestKept(g)
    /\ \A g \in {s(GK, q), sdg(GK, q)} :
         g.xs = xs /\ OnlyColumns(zs, g.zs, {q}) /\ RestKept(g)
    /\ \A t \in Qubits :
         LET g == cx(GK, q, t)
         IN  OnlyColumns(xs, g.xs, {t}) /\ OnlyColumns(zs, g.zs, {q})
               /\ RestKept(g)

\* Measured bits and a drawn word are there to be kept, and at some column
\* every gate changes a matrix or the signs: a row has x and z set there and
\* another only one of the two.
C25_Witness ==
  /\ rng >= 1
  /\ \E ch \in Slots : measured[ch]
  /\ \E q \in Qubits :
       /\ \E k \in Qubits : xs[k][q] /\ zs[k][q]
       /\ \E k \in Qubits : xs[k][q] # zs[k][q]
       /\ Cardinality({Tableau(GK), Tableau(x(GK, q)), Tableau(y(GK, q)),
                       Tableau(z(GK, q)), Tableau(h(GK, q)), Tableau(s(GK, q)),
                       Tableau(sdg(GK, q))}) = 7

====
